---- MODULE Spec2Model ----
(***************************************************************************)
(* pypilot autopilot core (pypilot/autopilot.py): the per-cycle control    *)
(* loop Autopilot.iteration with its stages, the properties a client can   *)
(* set, and the signal-driven teardown of the child processes.             *)
(*                                                                         *)
(* Units.  Angles are whole degrees.  Time is counted in ticks of 5 ms, so *)
(* that period/10 is a whole number of ticks at both IMU rates (20 Hz: 10  *)
(* ticks a period, 10 Hz: 20 ticks).  time.monotonic() has an arbitrary    *)
(* origin: the model puts the origin at the start of the cycle about to    *)
(* run, so t0 = 0 in every cycle and the stored time stamps are <= 0.      *)
(* heading_error_int is kept multiplied by 1500 * 200 (1500 from the code, *)
(* 200 ticks a second), which makes the integral step err * dt exact.      *)
(* Python's False is the number 0 wherever the code computes with it or    *)
(* tests its truth, and is modelled as 0 there.                            *)
(***************************************************************************)
EXTENDS Integers, Sequences, FiniteSets, TLC

VARIABLES
    ap,              \* the Autopilot object's fields (self.*), a record
    obs,             \* what the last operation did: its inputs and the calls it made
    childprocesses,  \* self.childprocesses, a list of children
    process,         \* process[c]: child c has a process (c.process is not false)
    alive,           \* the children whose process exists
    sigterm,         \* sigterm[c]: the SIGTERMs delivered to child c by os.kill
    handler,         \* handler[s]: what signal.signal installed for signal s
    frames,          \* the signal handlers running, innermost last
    phase,           \* where the process is: running, exiting, atexit, finalizing, exited
    raised,          \* KeyboardInterrupt has left the signal handlers
    watchdog         \* the watchdog file: the 'V' writes, the closes, a write after close

vars == <<ap, obs, childprocesses, process, alive, sigterm, handler, frames, phase,
          raised, watchdog>>

control == <<ap, obs>>
lifecycle == <<childprocesses, process, alive, sigterm, handler, frames, phase, raised>>

----------------------------------------------------------------------------
\* Units and program constants

\* Ticks in one second.
TicksPerSecond == 5 * 40

\* autopilot.py:234, the calibration dt is at most .25 s.
MaxCalDt == TicksPerSecond \div 4

\* autopilot.py:286, the integral dt is at most 1 s.
MaxIntDt == TicksPerSecond

\* autopilot.py:289-290, heading_error_int is within +-1; scaled by
\* 1500 * TicksPerSecond.
IntScale == 1500 * TicksPerSecond

\* autopilot.py:277, heading_error is within +-60 degrees.
MaxError == 60

\* autopilot.py:312, the IMU is read up to 14 times a cycle.
ImuTries == 14

Modes == {"compass", "gps", "wind", "true wind"}

\* 'wind' in mode: Python's substring test on the mode name.
IsWindMode(m) == m \in {"wind", "true wind"}

Min(a, b) == IF a < b THEN a ELSE b
Max(a, b) == IF a > b THEN a ELSE b

minmax(value, r) == Min(Max(value, -r), r)

\* A mutant of resolv: the branch is (offset - 180, offset + 180].
resolv_UpperClosed(angle, offset) == offset - 179 + ((angle - offset + 179) % 360)

\* resolv(angle, offset) of resolv.py: angle + 360 k within
\* [offset - 180, offset + 180).
resolv(angle, offset) == offset - 180 + ((angle - offset + 180) % 360)

----------------------------------------------------------------------------
\* Properties and filters

\* HeadingProperty.set: the value is brought into 0..360 for compass and gps
\* modes and into -180..180 for the wind modes, then stored by
\* RangeProperty.set, which keeps the old value when the new one is outside
\* the range -180..360 the property was registered with.
HeadingProperty_set(a, value) ==
    LET v == resolv(value, IF IsWindMode(a.mode) THEN 0 ELSE 180)
    IN  IF v >= -180 /\ v <= 360 THEN [a EXCEPT !.heading_command = v] ELSE a

\* ModeProperty.set_internal: the mode alone.
ModeProperty_set_internal(a, value) == [a EXCEPT !.mode = value]

\* A mutant of ModeProperty.set: the preference is not updated.
ModeProperty_set_NoPreference(a, value) == ModeProperty_set_internal(a, value)

\* ModeProperty.set, a mode change from the user: mode.ap is the autopilot
\* from line 86 on, so the preferred mode is updated first.
ModeProperty_set(a, value) ==
    ModeProperty_set_internal([a EXCEPT !.preferred_mode = value], value)

\* HeadingOffset.update with the blend factor d = d.num / d.den.
HeadingOffset_update(value, offset, d) ==
    LET o == resolv(offset, value)
    IN  resolv((d.num * o + (d.den - d.num) * value) \div d.den, 0)

----------------------------------------------------------------------------
\* Offset fusion

\* 1000 * ln(n) for n = 1..16.
LnMilli ==
    <<0, 693, 1099, 1386, 1609, 1792, 1946, 2079,
      2197, 2303, 2398, 2485, 2565, 2639, 2708, 2773>>

BlendDen == 1000000

\* .005 * log(self.gps_speed + 1), the smoothed speed (in knots / 1000) taken
\* at its whole knots.
GpsBlend(gps_speed) ==
    [num |-> 5 * LnMilli[Min(Max(gps_speed \div 1000, 0), 15) + 1], den |-> BlendDen]

\* .05 * log(wind_speed / 5.0 + 1.2) = .05 * (log(wind_speed + 6) - log(5)),
\* the wind speed taken at its whole knots.
WindBlend(wind_speed) ==
    [num |-> 50 * (LnMilli[Min(Max(wind_speed \div 1000, 0), 10) + 6] - LnMilli[5]),
     den |-> BlendDen]

\* Line 204: a gps source is there.
GpsPresent(s) == s.gps.source # "none"

\* Line 214: a wind source is there.
WindPresent(s) == s.wind.source # "none"

\* A mutant of line 225: the true wind filter needs no gps.
TrueWindUpdated_NoGps(s) == WindPresent(s)

\* Lines 214 and 225: the true wind filter is updated.
TrueWindUpdated(s) == WindPresent(s) /\ GpsPresent(s)

\* Lines 204 and 208: the gps filter is updated; the speed tested is the one
\* the gps reports now.
GpsOffsetUpdated(s) == GpsPresent(s) /\ s.gps.speed > 1000

\* compute_offsets.  s is the sensor snapshot: the low-passed compass heading,
\* gps (source, speed, track), wind (source, speed, direction) and true_wind,
\* the angle compute_true_wind returns for it (its sin, cos and atan2 are
\* outside integer arithmetic).  Speeds are in knots / 1000.
compute_offsets(a, s) ==
    LET gps_on == GpsPresent(s)
        wind_on == WindPresent(s)
        gps_speed == IF gps_on
                     THEN (998 * a.gps_speed + 2 * s.gps.speed) \div 1000
                     ELSE a.gps_speed
        gps_off == IF GpsOffsetUpdated(s)
                   THEN HeadingOffset_update(a.gps_compass_offset,
                                             s.gps.track - s.compass, GpsBlend(gps_speed))
                   ELSE a.gps_compass_offset
        wind_speed == IF wind_on
                      THEN (995 * a.wind_speed + 5 * s.wind.speed) \div 1000
                      ELSE a.wind_speed
        d == WindBlend(s.wind.speed)
        wd0 == resolv(s.wind.direction, a.wind_direction)
        wd == ((d.den - d.num) * a.wind_direction + d.num * wd0) \div d.den
        wind_off == IF wind_on
                    THEN HeadingOffset_update(a.wind_compass_offset, wd + s.compass, d)
                    ELSE a.wind_compass_offset
        true_off == IF TrueWindUpdated(s)
                    THEN HeadingOffset_update(
                             a.true_wind_compass_offset,
                             resolv(s.true_wind + s.compass, a.true_wind_compass_offset),
                             [num |-> 50000, den |-> BlendDen])
                    ELSE a.true_wind_compass_offset
    IN  [a EXCEPT !.gps_speed = gps_speed,
                  !.gps_compass_offset = gps_off,
                  !.wind_speed = wind_speed,
                  !.wind_direction = IF wind_on THEN resolv(wd, 0) ELSE @,
                  !.wind_compass_offset = wind_off,
                  !.true_wind_compass_offset = true_off]

----------------------------------------------------------------------------
\* Calibration compensation

\* The calibration term of line 244: the jump of the heading that is not the
\* rotation headingrate * dt (headingrate in degrees a second, dt in ticks).
CalibrationTerm(a, data, headingrate, dt) ==
    data.heading - (headingrate * dt) \div TicksPerSecond
        - resolv(a.last_heading, data.heading)

\* A mutant of lines 257-259: the command moves the other way.
ShiftCommand_Reversed(a, change) ==
    HeadingProperty_set(a, resolv(a.heading_command - change, 180))

\* Lines 257-259: in compass mode the command follows the compass.
ShiftCommand(a, change) ==
    HeadingProperty_set(a, resolv(a.heading_command + change, 180))

\* fix_compass_calibration_change(data, t0).  data is the IMU read of the
\* cycle (data.ok is false for the False of a failed read), headingrate the
\* low-passed heading rate and heading_off the IMU's alignment offset.
fix_compass_calibration_change(a, data, t0, headingrate, heading_off) ==
    LET dt == Min(t0 - a.lasttime, MaxCalDt)
        cal == IF data.ok /\ data.compass_calibration_updated /\ a.last_heading # 0
               THEN CalibrationTerm(a, data, headingrate, dt)
               ELSE 0
        align == IF a.last_heading_off # heading_off
                 THEN heading_off - resolv(a.last_heading_off, heading_off)
                 ELSE 0
        change == cal + align
        a1 == [a EXCEPT !.lasttime = t0,
                        !.compass_change = change,
                        !.last_heading = IF data.ok THEN data.heading ELSE @,
                        !.last_heading_off = heading_off]
        a2 == [a1 EXCEPT !.gps_compass_offset = @ - change,
                         !.wind_compass_offset = @ + change,
                         !.true_wind_compass_offset = @ + change]
    IN  IF change = 0 THEN a1
        ELSE IF a2.mode = "compass" THEN ShiftCommand(a2, change)
        ELSE a2

----------------------------------------------------------------------------
\* Mode arbitration and heading error

\* adjust_mode(pilot).  best_mode is the pilot's best_mode as a table from
\* the preferred mode to the mode the pilot can steer now.
adjust_mode(a, best_mode) ==
    LET newmode == best_mode[a.preferred_mode]
    IN  IF a.mode # newmode THEN ModeProperty_set_internal(a, newmode) ELSE a

\* A mutant of the mode-change branch: the wind sign is not reversed.
KeepHeadingOnModeChange_NoSign(a) ==
    IF a.mode # a.lastmode
    THEN [HeadingProperty_set(a, a.heading - a.heading_error) EXCEPT !.lastmode = a.mode]
    ELSE a

\* Lines 265-271: keep the same heading error when the mode changes.
KeepHeadingOnModeChange(a) ==
    IF a.mode # a.lastmode
    THEN LET error == IF IsWindMode(a.mode) THEN -a.heading_error ELSE a.heading_error
         IN  [HeadingProperty_set(a, a.heading - error) EXCEPT !.lastmode = a.mode]
    ELSE a

\* A mutant of lines 280-281: the error of the wind modes is not reversed.
HeadingError_NoReverse(a) ==
    minmax(resolv(a.heading - a.heading_command, 0), MaxError)

\* Lines 273-282: the heading error, reversed for the wind modes.
HeadingError(a) ==
    LET err == minmax(resolv(a.heading - a.heading_command, 0), MaxError)
    IN  IF IsWindMode(a.mode) THEN -err ELSE err

\* Line 285-286: the dt of the integral step.
IntegralDt(a, t) == Min(t - a.heading_error_int_time, MaxIntDt)

\* A mutant of the integral step: the sum is not limited.
IntegralStep_NoLimit(a, dt) == a.heading_error_int + a.heading_error * dt

\* Lines 289-290: heading_error_int + (heading_error / 1500) * dt within +-1,
\* in units of 1 / IntScale.
IntegralStep(a, dt) == minmax(a.heading_error_int + a.heading_error * dt, IntScale)

\* compute_heading_error(t).
compute_heading_error(a, t) ==
    LET a1 == KeepHeadingOnModeChange(a)
        a2 == [a1 EXCEPT !.heading_error = HeadingError(a1)]
    IN  [a2 EXCEPT !.heading_error_int_time = t,
                   !.heading_error_int = IntegralStep(a2, IntegralDt(a2, t))]

----------------------------------------------------------------------------
\* The control cycle

\* What boatimu.read() returns when it fails (Python's False).
NoData == [ok |-> FALSE, heading |-> 0, compass_calibration_updated |-> FALSE]

\* period = 1 / rate, in ticks.
Period(rate) == TicksPerSecond \div rate

\* A mutant of the read loop: a successful read does not end it.
RECURSIVE ReadImu_NoBreak(_, _, _, _)
ReadImu_NoBreak(reads, tries, sp, pd10) ==
    IF tries = ImuTries
    THEN [data |-> reads[ImuTries], tries |-> tries, sp |-> sp]
    ELSE ReadImu_NoBreak(reads, tries + 1,
                         IF reads[tries + 1].ok THEN sp ELSE sp + pd10, pd10)

\* Lines 311-319: read the IMU up to 14 times; a failed read adds period/10
\* to sp and sleeps that long.  reads[i] is what the i-th call of
\* boatimu.read() of this cycle returns, tries the calls made so far.
RECURSIVE ReadImu(_, _, _, _)
ReadImu(reads, tries, sp, pd10) ==
    IF tries = ImuTries
    THEN [data |-> reads[ImuTries], tries |-> tries, sp |-> sp]
    ELSE IF reads[tries + 1].ok
         THEN [data |-> reads[tries + 1], tries |-> tries + 1, sp |-> sp]
         ELSE ReadImu(reads, tries + 1, sp + pd10, pd10)

\* Lines 372-376: sleep the remainder of the period; the time slept, given
\* the time since t0.
RECURSIVE SleepRemainder(_, _, _)
SleepRemainder(period, elapsed, sp) ==
    LET dt == period - elapsed + sp
    IN  IF dt >= period \/ dt <= 0 THEN 0
        ELSE dt + SleepRemainder(period, elapsed + dt, sp)

\* A mutant of lines 342-348: the integral is reset on every change of enabled.
EnableEdge_AnyChange(a) ==
    IF a.enabled # a.lastenabled
    THEN [ap |-> [a EXCEPT !.lastenabled = a.enabled, !.heading_error_int = 0],
          reset |-> a.enabled]
    ELSE [ap |-> a, reset |-> FALSE]

\* Lines 342-348: reset filters when the autopilot is enabled.
EnableEdge(a) ==
    IF a.enabled # a.lastenabled
    THEN IF a.enabled
         THEN [ap |-> [a EXCEPT !.lastenabled = a.enabled, !.heading_error_int = 0],
               reset |-> TRUE]
         ELSE [ap |-> [a EXCEPT !.lastenabled = a.enabled], reset |-> FALSE]
    ELSE [ap |-> a, reset |-> FALSE]

\* Lines 350-352: perform tacking or the pilot's process(reset); the call of
\* pilot.process made, "skipped" when tack.process() claimed the cycle.
PilotProcess(tack, reset) ==
    IF tack THEN "skipped" ELSE IF reset THEN "reset" ELSE "no reset"

\* A mutant of lines 369-370: no keepalive in a cycle whose IMU reads failed.
WatchdogWrites_NotOnFailure(a, data) ==
    IF a.watchdog_device /\ data.ok THEN <<"c">> ELSE <<>>

\* Lines 369-370: the keepalive written in the cycle.
WatchdogWrites(a, data) == IF a.watchdog_device THEN <<"c">> ELSE <<>>

\* Lines 302-364: the stages found running too slowly.  dur[i] is the time
\* the i-th timed stage took: transport poll, sensor poll, IMU reads (their
\* sleeps included), autopilot routine, servo poll.
SlowStages(period, dur, data, servo_driver) ==
    {i \in 1..5 : /\ 2 * dur[i] > period
                  /\ (i = 3 => data.ok)
                  /\ (i = 5 => servo_driver)}

T0 == 0

\* iteration() with the inputs of the cycle: the IMU rate, the IMU reads,
\* headingrate_lowpass, heading_off, the sensor snapshot, the pilot
\* (best_mode table and the heading its compute_heading publishes), what
\* tack.process() returns, the time work[i] each stage computes and whether
\* the servo has a driver.  The result is the autopilot after the cycle and
\* what the cycle did.  Time stamps are shifted at the end so that the next
\* cycle again starts at T0.
iteration(a, in) ==
    LET period == Period(in.rate)
        imu == ReadImu(in.reads, 0, 0, period \div 10)
        dur == [i \in 1..5 |-> IF i = 3 THEN in.work[i] + imu.sp ELSE in.work[i]]
        a1 == fix_compass_calibration_change(a, imu.data, T0, in.headingrate, in.heading_off)
        a2 == compute_offsets(a1, in.sensors)
        a3 == adjust_mode(a2, in.best_mode)
        a4 == [a3 EXCEPT !.heading = in.heading]
        a5 == compute_heading_error(a4, T0)
        edge == EnableEdge(a5)
        a6 == edge.ap
        t5 == dur[1] + dur[2] + dur[3] + dur[4] + dur[5]
        slept == SleepRemainder(period, t5, imu.sp)
        duration == t5 + slept
    IN  [ap |-> [a6 EXCEPT !.lasttime = @ - duration,
                           !.heading_error_int_time = @ - duration],
         out |-> [tries |-> imu.tries,
                  sp |-> imu.sp,
                  data |-> imu.data,
                  imu_failure_reported |-> ~imu.data.ok,
                  cal_dt |-> Min(T0 - a.lasttime, MaxCalDt),
                  command_after_fix |-> a1.heading_command,
                  offsets_after_fix |-> [gps |-> a1.gps_compass_offset,
                                        wind |-> a1.wind_compass_offset,
                                        true_wind |-> a1.true_wind_compass_offset],
                  int_dt |-> IntegralDt(a4, T0),
                  since_integral |-> T0 - a.heading_error_int_time,
                  mode_changed |-> a4.mode # a4.lastmode,
                  reset |-> edge.reset,
                  pilot_process |-> PilotProcess(in.tack, edge.reset),
                  force_engaged |-> a6.enabled,
                  slow |-> SlowStages(period, dur, imu.data, in.servo_driver),
                  watchdog |-> WatchdogWrites(a6, imu.data),
                  slept |-> slept,
                  duration |-> duration]]

----------------------------------------------------------------------------
\* Process lifecycle: signals, cleanup, exit

\* The children of self.childprocesses (line 140-142 lists six: imu,
\* auto_cal, nmea, gpsd, signalk, server), the first NumChildren of them.
NumChildren == 2
Children == 1..NumChildren

\* The signal handlers that may be nested at one time.
MaxFrames == 2

SIGPIPE == 13
SIGKILL == 9
SIGCHLD == 17
\* cleanup's signal_number at exit is the string 'atexit'.
AtExit == 0

\* A mutant of lines 172-179: no exception is made for signal 13.
InstalledHandler_PipeCleansUp(s) ==
    IF s \in 1..15
    THEN IF s # SIGKILL THEN "cleanup" ELSE "SIG_DFL"
    ELSE IF s = SIGCHLD THEN "cleanup" ELSE "SIG_DFL"

\* Lines 172-179: the handler installed for signal s.
InstalledHandler(s) ==
    IF s \in 1..15
    THEN IF s = SIGPIPE THEN "printpipewarning"
         ELSE IF s # SIGKILL THEN "cleanup" ELSE "SIG_DFL"
    ELSE IF s = SIGCHLD THEN "cleanup" ELSE "SIG_DFL"

SIGTERM == 15

\* The signals delivered in the model.
Signals == {SIGPIPE, SIGTERM, SIGCHLD}

Top == frames[Len(frames)]
Front(q) == SubSeq(q, 1, Len(q) - 1)
SetTop(f) == [frames EXCEPT ![Len(frames)] = f]

\* The interpreter runs Python code, so a signal handler can be called.
Interruptible == phase \in {"running", "atexit"}

\* A signal arrives.  Python calls the handler between two bytecodes of
\* whatever runs, a handler included; an ignored signal does nothing.
DeliverSignal(s) ==
    /\ Interruptible
    /\ handler[s] = "cleanup"
    /\ Len(frames) < MaxFrames
    /\ frames' = Append(frames, [signal_number |-> s, pc |-> "ignore", process |-> 0])
    /\ obs' = [op |-> "signal"]
    /\ UNCHANGED <<ap, childprocesses, process, alive, sigterm, handler, phase, raised,
                   watchdog>>

\* Lines 169-170, printpipewarning: the signal is printed and nothing else.
PipeWarning ==
    /\ Interruptible
    /\ handler[SIGPIPE] = "printpipewarning"
    /\ obs' = [op |-> "printpipewarning"]
    /\ UNCHANGED <<ap, childprocesses, process, alive, sigterm, handler, frames, phase,
                   raised, watchdog>>

\* Lines 145-150: (waitpid for SIGCHLD, then) don't get this signal again.
CleanupIgnore ==
    /\ frames # <<>> /\ Top.pc = "ignore"
    /\ handler' = IF Top.signal_number # AtExit
                  THEN [handler EXCEPT ![Top.signal_number] = "SIG_IGN"]
                  ELSE handler
    /\ frames' = SetTop([Top EXCEPT !.pc = "loop"])
    /\ obs' = [op |-> "cleanup"]
    /\ UNCHANGED <<ap, childprocesses, process, alive, sigterm, phase, raised, watchdog>>

\* Line 153: childprocesses.pop() takes the last child.
PopChild(q) == [child |-> q[Len(q)], rest |-> Front(q)]

\* Lines 152-154: while children are left, pop one and look at its process.
CleanupPop ==
    /\ frames # <<>> /\ Top.pc = "loop" /\ childprocesses # <<>>
    /\ LET p == PopChild(childprocesses)
       IN  /\ childprocesses' = p.rest
           /\ frames' = SetTop(IF process[p.child]
                               THEN [Top EXCEPT !.pc = "kill", !.process = p.child]
                               ELSE Top)
    /\ obs' = [op |-> "cleanup"]
    /\ UNCHANGED <<ap, process, alive, sigterm, handler, phase, raised, watchdog>>

\* A mutant of lines 155-160: the exception for a process that is gone ends
\* the loop.
KillResult_StopOnDead(c) ==
    [sigterm |-> IF c \in alive THEN [sigterm EXCEPT ![c] = @ + 1] ELSE sigterm,
     pc |-> IF c \in alive THEN "loop" ELSE "flush"]

\* Lines 155-160: os.kill(pid, SIGTERM); the exception for a process that is
\* gone is passed over.
KillResult(c) ==
    [sigterm |-> IF c \in alive THEN [sigterm EXCEPT ![c] = @ + 1] ELSE sigterm,
     pc |-> "loop"]

CleanupKill ==
    /\ frames # <<>> /\ Top.pc = "kill"
    /\ LET k == KillResult(Top.process)
       IN  /\ sigterm' = k.sigterm
           /\ frames' = SetTop([Top EXCEPT !.pc = k.pc, !.process = 0])
    /\ obs' = [op |-> "cleanup"]
    /\ UNCHANGED <<ap, childprocesses, process, alive, handler, phase, raised, watchdog>>

\* Line 152 with no child left, and line 162: leave the loop and flush.
CleanupFlush ==
    /\ frames # <<>> /\ Top.pc = "loop" /\ childprocesses = <<>>
    /\ frames' = SetTop([Top EXCEPT !.pc = "flush"])
    /\ obs' = [op |-> "cleanup"]
    /\ UNCHANGED <<ap, childprocesses, process, alive, sigterm, handler, phase, raised,
                   watchdog>>

\* Lines 163-164: cleanup raises KeyboardInterrupt unless called at exit.
Raises(signal_number) == signal_number # AtExit

\* Lines 163-164, raising: KeyboardInterrupt is no Exception, so the
\* "except Exception" of an interrupted cleanup does not stop it; it leaves
\* every handler it interrupted and ends the main loop, or the exit call.
CleanupRaise ==
    /\ frames # <<>> /\ Top.pc = "flush" /\ Raises(Top.signal_number)
    /\ frames' = <<>>
    /\ raised' = TRUE
    /\ phase' = IF phase = "running" THEN "exiting" ELSE "finalizing"
    /\ obs' = [op |-> "raise", signal_number |-> Top.signal_number,
               nested |-> Len(frames)]
    /\ UNCHANGED <<ap, childprocesses, process, alive, sigterm, handler, watchdog>>

\* Lines 163-164, not raising: the call made at exit returns.
CleanupReturn ==
    /\ frames # <<>> /\ Top.pc = "flush" /\ ~Raises(Top.signal_number)
    /\ frames' = Front(frames)
    /\ phase' = IF Len(frames) = 1 THEN "finalizing" ELSE phase
    /\ obs' = [op |-> "return", signal_number |-> Top.signal_number]
    /\ UNCHANGED <<ap, childprocesses, process, alive, sigterm, handler, raised, watchdog>>

\* The main loop ends without a signal (SystemExit, or an exception of a
\* cycle): the interpreter starts its exit.
ProgramExit ==
    /\ phase = "running" /\ frames = <<>>
    /\ phase' = "exiting"
    /\ obs' = [op |-> "exit"]
    /\ UNCHANGED <<ap, childprocesses, process, alive, sigterm, handler, frames, raised,
                   watchdog>>

\* Line 181: at exit the registered lambda calls cleanup('atexit').
AtExitCall ==
    /\ phase = "exiting"
    /\ phase' = "atexit"
    /\ frames' = <<[signal_number |-> AtExit, pc |-> "ignore", process |-> 0]>>
    /\ obs' = [op |-> "atexit"]
    /\ UNCHANGED <<ap, childprocesses, process, alive, sigterm, handler, raised, watchdog>>

\* Lines 187-190 of __del__: disable the watchdog and close it.
Autopilot_del(a, w) ==
    IF a.watchdog_device
    THEN [w EXCEPT !.V = @ + 1,
                   !.closes = @ + 1,
                   !.written_after_close = @ \/ w.closes > 0]
    ELSE w

\* The interpreter shuts down.  Python does not promise to call __del__ of
\* an object that is alive at exit (the autopilot is in reference cycles,
\* line 86, and in the frames of the traceback): both outcomes occur.
Finalize(run_del) ==
    /\ phase = "finalizing"
    /\ phase' = "exited"
    /\ watchdog' = IF run_del THEN Autopilot_del(ap, watchdog) ELSE watchdog
    /\ obs' = [op |-> "finalize", run_del |-> run_del]
    /\ UNCHANGED <<ap, childprocesses, process, alive, sigterm, handler, frames, raised>>

\* A child process ends by itself.
ChildDies(c) ==
    /\ phase # "exited"
    /\ c \in alive
    /\ alive' = alive \ {c}
    /\ obs' = [op |-> "child dies"]
    /\ UNCHANGED <<ap, childprocesses, process, sigterm, handler, frames, phase, raised,
                   watchdog>>

----------------------------------------------------------------------------
\* The state after construction

\* Lines 72-137.  watchdog_device: open() of line 128 succeeded; heading_off:
\* the alignment offset the IMU has at line 93; built: the ticks between
\* line 110 and line 137.
Autopilot_init(watchdog_device, heading_off, built) ==
    [watchdog_device |-> watchdog_device,
     mode |-> "compass",
     preferred_mode |-> "compass",
     lastmode |-> "False",
     heading_command |-> 0,
     enabled |-> FALSE,
     lastenabled |-> FALSE,
     last_heading |-> 0,
     last_heading_off |-> heading_off,
     heading |-> 0,
     heading_error |-> 0,
     heading_error_int |-> 0,
     heading_error_int_time |-> -built,
     gps_compass_offset |-> 0,
     gps_speed |-> 0,
     wind_compass_offset |-> 0,
     true_wind_compass_offset |-> 0,
     wind_direction |-> 0,
     wind_speed |-> 0,
     lasttime |-> 0,
     compass_change |-> 0]

InitWith(WatchdogChoices, HeadingOffs, ProcessChoices) ==
    /\ ap \in {Autopilot_init(w, h, 0) : w \in WatchdogChoices, h \in HeadingOffs}
    /\ obs = [op |-> "init"]
    /\ childprocesses = [c \in Children |-> c]
    /\ process \in ProcessChoices
    /\ alive = {c \in Children : process[c]}
    /\ sigterm = [c \in Children |-> 0]
    /\ handler = [s \in Signals |-> InstalledHandler(s)]
    /\ frames = <<>>
    /\ phase = "running"
    /\ raised = FALSE
    /\ watchdog = [V |-> 0, closes |-> 0, written_after_close |-> FALSE]

----------------------------------------------------------------------------
\* Operations of the main loop and of the clients

\* One call of iteration() by main's loop, with the inputs in.
Iteration(in) ==
    /\ phase = "running" /\ frames = <<>>
    /\ LET r == iteration(ap, in)
       IN  /\ ap' = r.ap
           /\ obs' = [op |-> "iteration", in |-> in, out |-> r.out]
    /\ UNCHANGED <<lifecycle, watchdog>>

\* A client sets ap.mode.
SetMode(value) ==
    /\ phase = "running" /\ frames = <<>>
    /\ ap' = ModeProperty_set(ap, value)
    /\ obs' = [op |-> "set mode", value |-> value]
    /\ UNCHANGED <<lifecycle, watchdog>>

\* A client sets ap.enabled.
SetEnabled(value) ==
    /\ phase = "running" /\ frames = <<>>
    /\ ap.enabled # value
    /\ ap' = [ap EXCEPT !.enabled = value]
    /\ obs' = [op |-> "set enabled", value |-> value]
    /\ UNCHANGED <<lifecycle, watchdog>>

\* A client sets ap.heading_command.
SetHeadingCommand(value) ==
    /\ phase = "running" /\ frames = <<>>
    /\ ap' = HeadingProperty_set(ap, value)
    /\ obs' = [op |-> "set heading_command", value |-> value]
    /\ UNCHANGED <<lifecycle, watchdog>>

----------------------------------------------------------------------------
\* Inputs

\* The IMU reads of a cycle: the first fails reads fail, the others return data.
Reads(fails, data) == [i \in 1..ImuTries |-> IF i <= fails THEN NoData ELSE data]

ImuData(heading, updated) ==
    [ok |-> TRUE, heading |-> heading, compass_calibration_updated |-> updated]

\* No gps and no wind sensor.
NoSensors ==
    [compass |-> 0,
     gps |-> [source |-> "none", speed |-> 0, track |-> 0],
     wind |-> [source |-> "none", speed |-> 0, direction |-> 0],
     true_wind |-> 0]

\* Pilots by their best_mode: one that steers every mode, one without wind
\* sensor, one without gps and wind.
SteersAll == [m \in Modes |-> m]
NoWind == [m \in Modes |-> IF IsWindMode(m) THEN "compass" ELSE m]
CompassOnly == [m \in Modes |-> "compass"]

\* A quiet cycle at 20 Hz: the IMU read succeeds at once, nothing moves.
QuietCycle ==
    [rate |-> 20,
     reads |-> Reads(0, ImuData(0, FALSE)),
     headingrate |-> 0,
     heading_off |-> 0,
     sensors |-> NoSensors,
     best_mode |-> SteersAll,
     heading |-> 0,
     tack |-> FALSE,
     work |-> <<1, 1, 1, 1, 1>>,
     servo_driver |-> TRUE]

----------------------------------------------------------------------------
\* Spec: mode changes by the user and by the pilot, heading command and
\* heading error.  The cycles are slow ones: the autopilot routine takes a
\* second.

Headings == {0, 60}

SlowWork == <<1, 1, 1, TicksPerSecond, 1>>

ModeInputs ==
    {[QuietCycle EXCEPT !.best_mode = b, !.heading = h, !.work = SlowWork] :
        b \in {SteersAll, NoWind}, h \in Headings}

Init == InitWith({FALSE}, {0}, {[c \in Children |-> TRUE]})

Cycle == \E in \in ModeInputs : Iteration(in)
UserMode == \E m \in Modes : SetMode(m)
UserHeading == \E h \in Headings : SetHeadingCommand(h)

Next == Cycle \/ UserMode \/ UserHeading

Spec == Init /\ [][Next]_vars

\* The command that gives the heading the error e in mode m.
CommandFor(m, heading, e) == resolv(heading - e, IF IsWindMode(m) THEN 0 ELSE 180)

\* A cycle has just run and found the mode changed.
ModeSwitchStep == obs'.op = "iteration" /\ obs'.out.mode_changed

\* C2 as stated: in the cycle that detects mode # lastmode the published
\* heading_error equals the previous one, the command being recomputed from
\* the previous error with its sign flipped when the new or the old mode is a
\* wind mode.
C2_FlipWhenNewOrOldWind ==
    [][ModeSwitchStep =>
         /\ ap'.heading_error = ap.heading_error
         /\ ap'.heading_command =
              CommandFor(ap'.mode, ap'.heading,
                         IF IsWindMode(ap'.mode) \/ IsWindMode(ap.lastmode)
                         THEN -ap.heading_error ELSE ap.heading_error)]_vars

\* C2 amended: in the cycle that detects mode # lastmode the published
\* heading_error equals the one published before, for every old and new mode;
\* the command is recomputed from the previous error with its sign flipped
\* when (and only when) the new mode is a wind mode.
C2_ModeSwitchKeepsError ==
    [][ModeSwitchStep =>
         /\ ap'.heading_error = ap.heading_error
         /\ ap'.heading_command =
              CommandFor(ap'.mode, ap'.heading,
                         IF IsWindMode(ap'.mode)
                         THEN -ap.heading_error ELSE ap.heading_error)]_vars

\* A cycle switched from a wind mode to compass with a heading error of 60.
C2_Witness ==
    /\ obs.op = "iteration" /\ obs.out.mode_changed
    /\ ap.mode = "compass" /\ ap.preferred_mode = "wind"
    /\ ap.heading_error = MaxError

\* C10: preferred_mode is 'compass' at first and changes only in
\* ModeProperty.set, to the mode the user set; a cycle leaves it alone and
\* ends with mode = pilot.best_mode(preferred_mode).
C10_PreferredModeIsUsers ==
    /\ ap.preferred_mode = "compass"
    /\ [][/\ obs'.op = "set mode" => ap'.preferred_mode = obs'.value
          /\ obs'.op # "set mode" => ap'.preferred_mode = ap.preferred_mode
          /\ obs'.op = "iteration" =>
                ap'.mode = obs'.in.best_mode[ap.preferred_mode]]_vars

\* The user asked for wind and the pilot's cycle fell back to compass.
C10_Witness ==
    /\ obs.op = "iteration"
    /\ ap.preferred_mode = "wind" /\ ap.mode = "compass"

----------------------------------------------------------------------------
\* SpecEnable: the client enables and disables the autopilot, the tack
\* claims cycles.

EnableInputs ==
    {[QuietCycle EXCEPT !.heading = h, !.tack = t, !.work = SlowWork] :
        h \in Headings, t \in BOOLEAN}

EnableCycle == \E in \in EnableInputs : Iteration(in)
UserEnabled == \E b \in BOOLEAN : SetEnabled(b)

NextEnable == EnableCycle \/ UserEnabled

SpecEnable == Init /\ [][NextEnable]_vars

\* C3: a cycle calls pilot.process with reset = true exactly when it finds
\* enabled changed from false to true, whatever tack.process() returns.
C3_ResetOnEveryRisingEdge ==
    [][obs'.op = "iteration" =>
         ((ap.enabled /\ ~ap.lastenabled) <=> obs'.out.pilot_process = "reset")]_vars

----------------------------------------------------------------------------
\* SpecInt: the integral of the heading error over cycles of half a second
\* and of a second and a half, with mode changes and enabling.

HalfSecond == TicksPerSecond \div 2

IntInputs ==
    {[QuietCycle EXCEPT !.heading = h, !.work = <<1, 1, 1, w, 1>>] :
        h \in Headings, w \in {HalfSecond - 4, 3 * HalfSecond - 4}}

IntCycle == \E in \in IntInputs : Iteration(in)
IntUserMode == \E m \in {"compass", "wind"} : SetMode(m)

NextInt == IntCycle \/ IntUserMode \/ UserEnabled

SpecInt == Init /\ [][NextInt]_vars

\* C4: heading_error_int stays within [-1, 1] (in units of 1 / IntScale) and
\* no integral step uses a dt above 1 second.
C4_IntegralClamped ==
    /\ ap.heading_error_int >= -IntScale
    /\ ap.heading_error_int <= IntScale
    /\ obs.op = "iteration" => obs.out.int_dt <= MaxIntDt

\* The integral is at its lower limit after a cycle that came a second and a
\* half after the one before and used dt = 1 s.
C4_Witness ==
    /\ obs.op = "iteration"
    /\ ap.heading_error_int = -IntScale
    /\ obs.out.int_dt = MaxIntDt
    /\ obs.out.since_integral > MaxIntDt

----------------------------------------------------------------------------
\* SpecCal: compass calibration updates and alignment changes, in compass
\* and in gps mode.  The boat is held on course: the pilot publishes the
\* command of the cycle as the heading, and the heading error is 0.  The
\* cycles are slow ones, so the calibration dt is .25 s, and a heading rate
\* of 240 degrees a second turns the boat 60 degrees in it.

\* The offset filters drift without limit under calibration changes while no
\* sensor updates them: the cycles that take one beyond MaxOffset are left out.
MaxOffset == 120

CalInputs ==
    {[QuietCycle EXCEPT !.reads = Reads(f, ImuData(h, c)),
                        !.headingrate = r,
                        !.heading_off = o,
                        !.work = SlowWork] :
        f \in {0, ImuTries}, h \in {0, 60}, c \in BOOLEAN, r \in {0, 240},
        o \in {0, 60}}

\* The autopilot after the compensation stage of a cycle with the inputs in.
Compensated(in) ==
    fix_compass_calibration_change(
        ap, ReadImu(in.reads, 0, 0, Period(in.rate) \div 10).data, T0,
        in.headingrate, in.heading_off)

CalCycle ==
    \E in \in CalInputs :
        /\ Compensated(in).gps_compass_offset \in -MaxOffset..MaxOffset
        /\ Iteration([in EXCEPT !.heading = Compensated(in).heading_command])

CalUserMode == \E m \in {"compass", "gps"} : SetMode(m)

NextCal == CalCycle \/ CalUserMode

SpecCal == Init /\ [][NextCal]_vars

\* Two cycles in a row read the IMU; the second read is flagged as a
\* calibration update, in compass mode, while the boat does not turn and the
\* alignment is unchanged: the whole jump of the heading is the calibration's.
CalibrationJumpStep ==
    /\ obs.op = "iteration" /\ obs.out.data.ok
    /\ obs'.op = "iteration" /\ obs'.out.data.ok
    /\ obs'.out.data.compass_calibration_updated
    /\ obs'.in.headingrate = 0
    /\ obs'.in.heading_off = ap.last_heading_off
    /\ ap.mode = "compass"

\* C1: in compass mode a heading jump J of a read flagged as calibration
\* update (from the previous heading sample) moves heading_command by J
\* (mod 360) in fix_compass_calibration_change, so that heading -
\* heading_command is the same before and after.
C1_CommandFollowsCalibrationJump ==
    [][CalibrationJumpStep =>
         /\ (obs'.out.command_after_fix - ap.heading_command
               - (obs'.out.data.heading - obs.out.data.heading)) % 360 = 0
         /\ (obs'.out.data.heading - obs'.out.command_after_fix
               - (obs.out.data.heading - ap.heading_command)) % 360 = 0]_vars

----------------------------------------------------------------------------
\* SpecCycle: the stages of a cycle at 10 and 20 Hz, with no, few, nearly all
\* and all IMU reads failing, quick and slow stages, with and without
\* watchdog device.

\* Stage times: all quick; the autopilot routine takes 12 ticks, more than
\* half a period at 10 Hz and more than a period at 20 Hz; the servo poll
\* takes 12 ticks.
CycleWork == {<<1, 1, 1, 1, 1>>, <<1, 1, 1, 12, 1>>, <<1, 1, 1, 1, 12>>}

CycleInputs ==
    {[QuietCycle EXCEPT !.rate = r,
                        !.reads = Reads(f, ImuData(0, FALSE)),
                        !.work = w,
                        !.servo_driver = d] :
        r \in {10, 20}, f \in {0, 1, 2, ImuTries - 1, ImuTries},
        w \in CycleWork, d \in BOOLEAN}

InitCycle == InitWith(BOOLEAN, {0}, {[c \in Children |-> TRUE]})

StagesCycle == \E in \in CycleInputs : Iteration(in)

SpecCycle == InitCycle /\ [][StagesCycle]_vars

\* The reads of the cycle before the i-th all failed.
AllFailedBefore(reads, i) == \A j \in 1..(i - 1) : ~reads[j].ok

\* C5: a cycle reads the IMU at most 14 times and stops at the first read
\* that succeeds; when all 14 fail the failure is reported, the retries
\* have slept 14 * period / 10 and no more, and the cycle goes on to its end:
\* the later stages run and the closing sleep is shorter than a period.
C5_ImuRetryBounded ==
    obs.op = "iteration" =>
        LET out == obs.out
            reads == obs.in.reads
            period == Period(obs.in.rate)
        IN  /\ out.tries \in 1..ImuTries
            /\ AllFailedBefore(reads, out.tries)
            /\ out.tries < ImuTries => reads[out.tries].ok
            /\ out.data = reads[out.tries]
            /\ out.imu_failure_reported <=> \A j \in 1..ImuTries : ~reads[j].ok
            /\ 10 * out.sp = (IF out.data.ok THEN out.tries - 1 ELSE out.tries) * period
            /\ 10 * out.sp <= ImuTries * period
            /\ Len(out.watchdog) = (IF ap.watchdog_device THEN 1 ELSE 0)
            /\ out.slept < period

\* All 14 reads of a cycle failed.
C5_Witness ==
    /\ obs.op = "iteration"
    /\ obs.out.tries = ImuTries /\ ~obs.out.data.ok
    /\ obs.out.imu_failure_reported
    /\ 10 * obs.out.sp = ImuTries * Period(obs.in.rate)

\* C9: a cycle writes one keepalive when the watchdog device is open and
\* none when it failed to open, whatever the IMU reads and the stage times
\* were; watchdog_device is never set after construction.
C9_OneKeepalivePerCycle ==
    /\ [](obs.op = "iteration" =>
            obs.out.watchdog = IF ap.watchdog_device THEN <<"c">> ELSE <<>>)
    /\ [][ap'.watchdog_device = ap.watchdog_device]_vars

\* A cycle with the device open, all IMU reads failed and a slow stage.
C9_Witness ==
    /\ obs.op = "iteration"
    /\ ap.watchdog_device
    /\ ~obs.out.data.ok
    /\ obs.out.slow # {}
    /\ obs.out.watchdog = <<"c">>

\* The time the i-th timed stage of the cycle observed in o took.
StageTime(o, i) == IF i = 3 THEN o.in.work[i] + o.out.sp ELSE o.in.work[i]

\* C12: a timed stage that took more than half a period is diagnosed (for
\* the IMU stage the report of the failed read counts as its diagnostic).
C12_SlowStagesDiagnosed ==
    obs.op = "iteration" =>
        \A i \in 1..5 :
            2 * StageTime(obs, i) > Period(obs.in.rate) =>
                \/ i \in obs.out.slow
                \/ i = 3 /\ obs.out.imu_failure_reported

\* The time from t0 to t5 of the cycle observed in o.
Elapsed(o) ==
    StageTime(o, 1) + StageTime(o, 2) + StageTime(o, 3) + StageTime(o, 4)
        + StageTime(o, 5)

\* C13: the closing sleep is period - elapsed + retry slack, clamped to
\* [0, period), and a cycle whose stages fit in the period lasts the period,
\* also when IMU reads were retried.
C13_SleepTracksPeriod ==
    obs.op = "iteration" =>
        LET period == Period(obs.in.rate)
            dt == period - Elapsed(obs) + obs.out.sp
        IN  /\ obs.out.slept = Max(0, Min(dt, period - 1))
            /\ obs.out.duration = Elapsed(obs) + obs.out.slept
            /\ Elapsed(obs) <= period => obs.out.duration = period

----------------------------------------------------------------------------
\* SpecLife: the main loop runs quiet cycles until a signal or an exit ends
\* it; signals arrive at any time, also while cleanup runs; children have a
\* process or not and may be gone already; the watchdog device is there or not.

InitLife == InitWith(BOOLEAN, {0}, [Children -> BOOLEAN])

LifeCycle == Iteration(QuietCycle)
Signal == \E s \in Signals : DeliverSignal(s)
Finalization == \E run_del \in BOOLEAN : Finalize(run_del)
ChildExit == \E c \in Children : ChildDies(c)

NextLife ==
    \/ LifeCycle
    \/ Signal
    \/ PipeWarning
    \/ CleanupIgnore
    \/ CleanupPop
    \/ CleanupKill
    \/ CleanupFlush
    \/ CleanupRaise
    \/ CleanupReturn
    \/ ProgramExit
    \/ AtExitCall
    \/ Finalization
    \/ ChildExit

SpecLife == InitLife /\ [][NextLife]_vars

\* Every child whose process exists has been sent SIGTERM.
AllSignalled == \A c \in Children : process[c] /\ c \in alive => sigterm[c] >= 1

\* C6: when KeyboardInterrupt leaves cleanup after a signal, and when the
\* cleanup called at exit has returned, childprocesses is empty and every
\* child process has been sent SIGTERM; the call at exit is the only one that
\* returns instead of raising.
C6_TeardownBeforeRaise ==
    /\ raised => childprocesses = <<>> /\ AllSignalled
    /\ obs.op = "return" => childprocesses = <<>> /\ AllSignalled
    /\ obs.op = "raise" => obs.signal_number # AtExit
    /\ obs.op = "return" => obs.signal_number = AtExit

\* C7: when KeyboardInterrupt leaves handlers that were nested (a second
\* signal came while cleanup ran), every child process has been sent SIGTERM.
C7_ReentrantTeardownKillsAll ==
    obs.op = "raise" /\ obs.nested > 1 => AllSignalled

\* C8: once the process has ended, a watchdog that was opened has been
\* written the disable value once and closed once, in that order.
C8_WatchdogDisabledOnce ==
    phase = "exited" /\ ap.watchdog_device =>
        /\ watchdog.V = 1
        /\ watchdog.closes = 1
        /\ ~watchdog.written_after_close

----------------------------------------------------------------------------
\* SpecOrder: the alignment offset of the IMU changes while the user prefers
\* gps and the pilot can or cannot steer by it, so that a cycle has a
\* compensation and a mode switch by adjust_mode at once.

OrderInputs ==
    {[QuietCycle EXCEPT !.heading_off = o, !.best_mode = b, !.work = SlowWork] :
        o \in {0, 60}, b \in {SteersAll, CompassOnly}}

OrderCycle == \E in \in OrderInputs : Iteration(in)

NextOrder == OrderCycle \/ CalUserMode

SpecOrder == Init /\ [][NextOrder]_vars

\* C11: the stages of a cycle run in the order compensation, fusion, mode
\* arbitration, pilot heading, heading error, each on values final for the
\* cycle: the heading error is computed for the arbiter's mode, and the mode
\* a compensation tested (the mode at the start of the cycle) is the mode
\* the cycle ends with.
C11_StagesReadFinalValues ==
    [][obs'.op = "iteration" =>
         /\ ap'.lastmode = ap'.mode
         /\ ap'.heading_error = HeadingError(ap')
         /\ ap'.compass_change # 0 => ap.mode = ap'.mode]_vars

----------------------------------------------------------------------------
\* SpecResolv: resolv applied to whole angles of up to MaxAngle degrees
\* either way, about the references the program uses (0 and 180) and about
\* a reference that is a value of a heading.

MaxAngle == 400

Angles == -MaxAngle..MaxAngle

References == {0, 180, 359}

\* One call resolv(angle, offset).
ResolvCall(angle, offset) ==
    /\ phase = "running" /\ frames = <<>>
    /\ obs' = [op |-> "resolv", angle |-> angle, offset |-> offset,
               out |-> resolv(angle, offset)]
    /\ UNCHANGED <<ap, lifecycle, watchdog>>

NextResolv == \E angle \in Angles, offset \in References : ResolvCall(angle, offset)

SpecResolv == Init /\ [][NextResolv]_vars

\* C14: resolv(a, r) lies in [r - 180, r + 180) and differs from a by a
\* whole multiple of 360.
C14_ResolvInBranch ==
    obs.op = "resolv" =>
        /\ obs.out >= obs.offset - 180
        /\ obs.out < obs.offset + 180
        /\ (obs.out - obs.angle) % 360 = 0

\* An angle two turns away from the branch, resolved to its upper end.
C14_Witness ==
    /\ obs.op = "resolv"
    /\ obs.out = obs.angle + 720
    /\ obs.out = obs.offset + 179

----------------------------------------------------------------------------
\* SpecFilter: HeadingOffset.update applied to filter values in and out of
\* [-180, 180) (lines 254-256 add the compass change to the value without
\* resolving it), raw offsets all around the circle and blend factors from
\* 0 to 1.  Values, offsets and factors are such that the blend is a whole
\* number of degrees.

\* Filter values of -200 to 200 degrees, every 20 degrees.
FilterValues == {20 * k : k \in -10..10}

\* Raw offsets of -160 to 320 degrees, every 40 degrees.
RawOffsets == {40 * k : k \in -4..8}

\* The blend factors 0, 1/4, 1/2 and 1.
BlendFactors == {[num |-> n, den |-> 4] : n \in {0, 1, 2, 4}}

Abs(x) == IF x < 0 THEN -x ELSE x

\* One call update(offset, d) on a HeadingOffset whose value is value.
FilterUpdate(value, offset, d) ==
    /\ phase = "running" /\ frames = <<>>
    /\ obs' = [op |-> "update", value |-> value, offset |-> offset, d |-> d,
               out |-> HeadingOffset_update(value, offset, d)]
    /\ UNCHANGED <<ap, lifecycle, watchdog>>

NextFilter ==
    \E value \in FilterValues, offset \in RawOffsets, d \in BlendFactors :
        FilterUpdate(value, offset, d)

SpecFilter == Init /\ [][NextFilter]_vars

\* C15: one call of HeadingOffset.update moves value by at most d times the
\* circular distance between the raw offset and the old value, and so never
\* by a turn, whether the old value was within [-180, 180) or not.
C15_FilterStepBounded ==
    obs.op = "update" =>
        obs.d.den * Abs(obs.out - obs.value)
            <= obs.d.num * Abs(resolv(obs.offset, obs.value) - obs.value)

----------------------------------------------------------------------------
\* SpecFusion: compute_offsets applied to the autopilot as earlier cycles
\* left it (the boat stopped, drifting at .9 knots or sailing at 5 knots;
\* calm or 8 knots of wind; the filters at 0 or away from it) and to sensor
\* snapshots with and without gps and wind source.  Speeds are in
\* knots / 1000.

FusionStates ==
    {[ap EXCEPT !.gps_speed = g,
                !.gps_compass_offset = go,
                !.wind_speed = w,
                !.wind_direction = wd,
                !.wind_compass_offset = wo,
                !.true_wind_compass_offset = wo] :
        g \in {0, 900, 5000}, go \in {0, 100}, w \in {0, 8000}, wd \in {0, 90},
        wo \in {0, 100}}

Snapshots ==
    {[compass |-> 0,
      gps |-> [source |-> gs, speed |-> g, track |-> 300],
      wind |-> [source |-> ws, speed |-> 10000, direction |-> 300],
      true_wind |-> 300] :
        gs \in {"none", "gpsd"}, g \in {500, 1000, 8000}, ws \in {"none", "wind"}}

\* One call of compute_offsets.
FusionCall(a, s) ==
    /\ phase = "running" /\ frames = <<>>
    /\ obs' = [op |-> "compute_offsets", before |-> a, sensors |-> s,
               gps_offset_updated |-> GpsOffsetUpdated(s),
               out |-> compute_offsets(a, s)]
    /\ UNCHANGED <<ap, lifecycle, watchdog>>

NextFusion == \E a \in FusionStates, s \in Snapshots : FusionCall(a, s)

SpecFusion == Init /\ [][NextFusion]_vars

\* C16: with a gps source, compute_offsets updates the gps filter exactly
\* when the smoothed gps speed (gps_speed after its blend of .002) is above
\* 1 knot, and at or below it leaves the value of the filter alone.
C16_GpsUpdateBySmoothedSpeed ==
    obs.op = "compute_offsets" /\ GpsPresent(obs.sensors) =>
        /\ obs.gps_offset_updated <=> obs.out.gps_speed > 1000
        /\ obs.out.gps_speed <= 1000 =>
              obs.out.gps_compass_offset = obs.before.gps_compass_offset

\* C17: compute_offsets without gps source leaves the smoothed gps speed and
\* the gps filter alone; without wind source it leaves the smoothed wind
\* speed, the wind direction, the wind filter and the true wind filter
\* alone; the true wind filter is updated (with a blend of .05) exactly when
\* both sources are there.
C17_MissingSourceKeepsState ==
    obs.op = "compute_offsets" =>
        LET a == obs.before
            s == obs.sensors
            out == obs.out
        IN  /\ ~GpsPresent(s) =>
                  /\ out.gps_speed = a.gps_speed
                  /\ out.gps_compass_offset = a.gps_compass_offset
            /\ ~WindPresent(s) =>
                  /\ out.wind_speed = a.wind_speed
                  /\ out.wind_direction = a.wind_direction
                  /\ out.wind_compass_offset = a.wind_compass_offset
            /\ out.true_wind_compass_offset =
                  IF GpsPresent(s) /\ WindPresent(s)
                  THEN HeadingOffset_update(
                           a.true_wind_compass_offset,
                           resolv(s.true_wind + s.compass, a.true_wind_compass_offset),
                           [num |-> 1, den |-> 20])
                  ELSE a.true_wind_compass_offset

\* Wind but no gps: the wind speed, the wind direction and the wind filter
\* move, the gps speed and the true wind filter stay although the gps speed
\* reported and the true wind are away from them.
C17_Witness ==
    /\ obs.op = "compute_offsets"
    /\ WindPresent(obs.sensors) /\ ~GpsPresent(obs.sensors)
    /\ obs.sensors.gps.speed # obs.before.gps_speed
    /\ obs.out.wind_speed # obs.before.wind_speed
    /\ obs.out.wind_direction # obs.before.wind_direction
    /\ obs.out.wind_compass_offset # obs.before.wind_compass_offset
    /\ obs.out.true_wind_compass_offset = obs.before.true_wind_compass_offset
    /\ HeadingOffset_update(
           obs.before.true_wind_compass_offset,
           resolv(obs.sensors.true_wind + obs.sensors.compass,
                  obs.before.true_wind_compass_offset),
           [num |-> 1, den |-> 20]) # obs.before.true_wind_compass_offset

----------------------------------------------------------------------------
\* SpecRange: the user changes between compass and wind mode and sets
\* heading commands on both halves of the circle, between slow cycles.

RangeCycle == Iteration([QuietCycle EXCEPT !.work = SlowWork])

RangeUserHeading == \E h \in {60, 300} : SetHeadingCommand(h)

NextRange == RangeCycle \/ IntUserMode \/ RangeUserHeading

SpecRange == Init /\ [][NextRange]_vars

\* C18: at the end of a cycle heading_command is within [0, 360) in compass
\* and gps mode and within [-180, 180) in the wind modes.
C18_CommandInModeRange ==
    obs.op = "iteration" =>
        IF IsWindMode(ap.mode)
        THEN ap.heading_command >= -180 /\ ap.heading_command < 180
        ELSE ap.heading_command >= 0 /\ ap.heading_command < 360

----------------------------------------------------------------------------
\* SpecError: the boat heads 100 or 200 degrees, the command is 110 or 250
\* (-110 in wind mode), in compass and in wind mode; slow cycles.

ErrorCycle ==
    \E h \in {100, 200} :
        Iteration([QuietCycle EXCEPT !.heading = h, !.work = SlowWork])

ErrorUserHeading == \E h \in {110, 250} : SetHeadingCommand(h)

NextError == ErrorCycle \/ IntUserMode \/ ErrorUserHeading

SpecError == Init /\ [][NextError]_vars

\* C19: after a cycle heading_error is resolv(heading - heading_command)
\* limited to +-60, with the opposite sign in the wind modes.
C19_HeadingErrorValue ==
    obs.op = "iteration" =>
        LET diff == resolv(ap.heading - ap.heading_command, 0)
            err == IF diff > 60 THEN 60 ELSE IF diff < -60 THEN -60 ELSE diff
        IN  /\ ap.heading = obs.in.heading
            /\ ap.heading_error = IF ap.mode \in {"wind", "true wind"} THEN -err ELSE err

\* Wind mode, heading 100, command 110: the error is +10.
C19_Witness ==
    /\ obs.op = "iteration" /\ ~obs.out.mode_changed
    /\ ap.mode = "wind" /\ ap.heading = 100 /\ ap.heading_command = 110
    /\ ap.heading_error = 10

----------------------------------------------------------------------------
\* SpecShift: the compensation stage in each of the four modes.  Every cycle
\* reads the IMU at the first try while the boat does not turn; the compass
\* heading, the calibration flag and the alignment vary, the boat is held on
\* course as in SpecCal, and the user changes the mode between cycles.

ShiftInputs ==
    {[QuietCycle EXCEPT !.reads = Reads(0, ImuData(h, c)),
                        !.heading_off = o,
                        !.work = SlowWork] :
        h \in {0, 60}, c \in BOOLEAN, o \in {0, 60}}

ShiftCycle ==
    \E in \in ShiftInputs :
        /\ Compensated(in).gps_compass_offset \in -MaxOffset..MaxOffset
        /\ Iteration([in EXCEPT !.heading = Compensated(in).heading_command])

ShiftUserMode == \E m \in Modes : SetMode(m)

NextShift == ShiftCycle \/ ShiftUserMode

SpecShift == Init /\ [][NextShift]_vars

\* C20: fix_compass_calibration_change takes its delta (compass_change) off
\* the gps filter and adds it to the wind and the true wind filter, and
\* shifts heading_command by it in compass mode alone; a delta of zero
\* changes neither the filters nor the command.
C20_CompensationFrame ==
    [][obs'.op = "iteration" =>
         LET delta == ap'.compass_change
             fixed == obs'.out.offsets_after_fix
         IN  /\ fixed.gps = ap.gps_compass_offset - delta
             /\ fixed.wind = ap.wind_compass_offset + delta
             /\ fixed.true_wind = ap.true_wind_compass_offset + delta
             /\ obs'.out.command_after_fix =
                   IF delta # 0 /\ ap.mode = "compass"
                   THEN resolv(ap.heading_command + delta, 180)
                   ELSE ap.heading_command]_vars

\* A compensation of 60 degrees in compass mode that moved the command from
\* 0 to 60, with the gps filter at -60 after it.
C20_Witness ==
    /\ obs.op = "iteration"
    /\ ap.compass_change = 60
    /\ ap.mode = "compass" /\ ap.lastmode = "compass"
    /\ obs.out.command_after_fix = 60
    /\ obs.out.offsets_after_fix.gps = -60
    /\ obs.out.offsets_after_fix.wind = 60

----------------------------------------------------------------------------
\* The enable edge and the integral, under SpecInt.

\* C21: a cycle that finds enabled changed from false to true ends with
\* heading_error_int = 0 (the reset comes after the integral step of the
\* cycle and before the pilot's process); a cycle that finds it changed from
\* true to false ends with the integral its integral step computed.
C21_IntegralResetOnRisingEdge ==
    [][obs'.op = "iteration" =>
         /\ (ap.enabled /\ ~ap.lastenabled) =>
               /\ ap'.heading_error_int = 0
               /\ obs'.out.reset
         /\ (~ap.enabled /\ ap.lastenabled) =>
               /\ ap'.heading_error_int =
                     IntegralStep([ap EXCEPT !.heading_error = ap'.heading_error],
                                  obs'.out.int_dt)
               /\ ~obs'.out.reset]_vars

\* A cycle found the autopilot newly enabled while the boat was off course:
\* its integral step added to the integral, and the integral is 0 after it.
C21_Witness ==
    /\ obs.op = "iteration"
    /\ obs.out.reset /\ obs.out.pilot_process = "reset"
    /\ ap.heading_error # 0 /\ obs.out.int_dt > 0
    /\ ap.heading_error_int = 0

----------------------------------------------------------------------------
\* The broken-pipe signal, under SpecLife.

\* C22: signal 13 keeps the handler printpipewarning for the whole run, and
\* a delivery of it is only printed: no child is sent a signal, childprocesses
\* is as before, nothing is raised, and the main loop, or the cleanup it
\* interrupted, goes on where it was.
C22_BrokenPipeOnlyLogged ==
    [][/\ handler'[SIGPIPE] = "printpipewarning"
       /\ obs'.op = "printpipewarning" =>
             /\ sigterm' = sigterm
             /\ childprocesses' = childprocesses
             /\ raised' = raised
             /\ phase' = phase /\ frames' = frames
             /\ ap' = ap /\ watchdog' = watchdog]_vars

\* The broken-pipe signal was printed while the main loop runs with every
\* child in the list, none signalled.
C22_Witness ==
    /\ obs.op = "printpipewarning"
    /\ phase = "running" /\ frames = <<>>
    /\ Len(childprocesses) = NumChildren
    /\ \A c \in Children : sigterm[c] = 0
    /\ ~raised

----------------------------------------------------------------------------
\* The calibration term, under SpecCal.

\* C23: in a cycle whose alignment is unchanged, the calibration term of
\* line 244 is the whole compass_change when the IMU read is flagged as a
\* calibration update and the cycle before read a heading sample, whatever
\* that sample was; compass_change is 0 when the read failed, is not flagged,
\* or is the first of the run; a failed read keeps the previous sample.
C23_CalibrationTermWhenSampleExists ==
    [][obs'.op = "iteration" /\ obs'.in.heading_off = ap.last_heading_off =>
         LET data == obs'.out.data
             sample == obs.op = "iteration" /\ obs.out.data.ok
         IN  /\ (data.ok /\ data.compass_calibration_updated /\ sample) =>
                   ap'.compass_change =
                      CalibrationTerm(ap, data, obs'.in.headingrate, obs'.out.cal_dt)
             /\ (~data.ok \/ ~data.compass_calibration_updated \/ obs.op = "init") =>
                   ap'.compass_change = 0
             /\ ~data.ok => ap'.last_heading = ap.last_heading]_vars

----------------------------------------------------------------------------
\* SpecTeardown: SpecLife with the interpreter going on with a handler it has
\* entered (a step of cleanup is taken as long as one is pending).

CleanupStep ==
    \/ CleanupIgnore
    \/ CleanupPop
    \/ CleanupKill
    \/ CleanupFlush
    \/ CleanupRaise
    \/ CleanupReturn

SpecTeardown == SpecLife /\ WF_vars(CleanupStep)

\* childprocesses after a step is what is left of it without its last
\* elements: nothing is added, and what is removed is removed from the end.
OnlyPopped ==
    /\ Len(childprocesses') <= Len(childprocesses)
    /\ childprocesses' = SubSeq(childprocesses, 1, Len(childprocesses'))

\* C24: over all cleanup calls of a run (signals, nested or not, then the
\* call at exit) childprocesses only loses children and holds none twice, it
\* is empty once the process has ended, no child is sent SIGTERM twice, the
\* kill of a child that is gone goes back to the loop and raises nothing, and
\* every cleanup that was entered is left.
C24_TeardownOncePerChild ==
    /\ [][OnlyPopped]_vars
    /\ [](\A i, j \in 1..Len(childprocesses) :
             childprocesses[i] = childprocesses[j] => i = j)
    /\ [](phase = "exited" => childprocesses = <<>>)
    /\ [](\A c \in Children : sigterm[c] <= 1)
    /\ [][(/\ frames # <<>> /\ Top.pc = "kill" /\ Top.process \notin alive
           /\ obs'.op = "cleanup") =>
             /\ frames' = SetTop([Top EXCEPT !.pc = "loop", !.process = 0])
             /\ raised' = raised
             /\ sigterm' = sigterm]_vars
    /\ (frames # <<>>) ~> (frames = <<>>)

\* The run has ended without a signal after the teardown at exit: the child
\* popped first was gone before its kill, and the other one was signalled
\* once after it.
C24_Witness ==
    /\ phase = "exited" /\ ~raised
    /\ childprocesses = <<>>
    /\ process[1] /\ process[2]
    /\ 2 \notin alive /\ sigterm[2] = 0
    /\ sigterm[1] = 1

----------------------------------------------------------------------------
\* SpecDrift: calibration updates in a row while no sensor updates the
\* offset filters.  The compass heading goes from 60 to 0 with the
\* calibration flag and back, the boat is held on course as in SpecCal, and
\* the user changes between compass and gps mode.

\* The cycles that take the gps offset beyond MaxDrift are left out.
MaxDrift == 240

DriftInputs ==
    {[QuietCycle EXCEPT !.reads = Reads(f, ImuData(h, c)),
                        !.work = SlowWork] :
        f \in {0, ImuTries}, h \in {0, 60}, c \in BOOLEAN}

DriftCycle ==
    \E in \in DriftInputs :
        /\ Compensated(in).gps_compass_offset \in -MaxDrift..MaxDrift
        /\ Iteration([in EXCEPT !.heading = Compensated(in).heading_command])

NextDrift == DriftCycle \/ CalUserMode

SpecDrift == Init /\ [][NextDrift]_vars

\* C25: at the end of every cycle the gps, the wind and the true wind offset
\* filter hold a value in [-180, 180).
C25_OffsetsCanonical ==
    obs.op = "iteration" =>
        /\ ap.gps_compass_offset \in -180..179
        /\ ap.wind_compass_offset \in -180..179
        /\ ap.true_wind_compass_offset \in -180..179

====
